---------------------------- MODULE Spec2Model ----------------------------
(***************************************************************************)
(* A model of ccl_sqlite_jsonb.py, the reader of SQLite's "jsonb" binary   *)
(* JSON format.  A buffer is a sequence of bytes (0..255).  _read_jsonb    *)
(* is a pure recursive function of its buffer; it is modelled twice over   *)
(* the same helpers: as a recursive operator (the value it returns), and   *)
(* as a machine with an explicit call stack (the steps it takes).          *)
(***************************************************************************)
EXTENDS Integers, Sequences, FiniteSets, TLC

VARIABLES
    buf,      \* the bytes handed to the decoder
    source,   \* the plans buf was written from, <<>> when buf is raw bytes
    cursor,   \* a caller's offset into buf: the sum of the counts returned
    values,   \* the values returned so far by the calls on buf[cursor:]
    counts,   \* the byte counts returned so far
    call,     \* the latest call of _read_jsonb: its argument and its outcome
    stack,    \* the call stack of the stepwise decoder, innermost frame last
    ret       \* what the stepwise decoder's outermost call returned or raised

vars == <<buf, source, cursor, values, counts, call, stack, ret>>

(***************************************************************************)
(* Python's built-ins, as the decoder uses them.                           *)
(***************************************************************************)

Min(a, b) == IF a <= b THEN a ELSE b

\* The element of a set of one element.  {F(x) : x \in {e}} is F of the
\* value of e, with e worked out once.
The(S) == CHOOSE x \in S : TRUE

\* data[lo:hi] for 0 <= lo: a slice never fails, it is clipped to the data.
Slice(data, lo, hi) ==
    LET top == Min(hi, Len(data))
    IN  IF lo < top THEN SubSeq(data, lo + 1, top) ELSE <<>>

\* data[lo:]
SliceFrom(data, lo) == Slice(data, lo, Len(data))

\* struct.unpack(">H" / ">I" / ">Q", b): the big-endian unsigned value of b.
RECURSIVE BigEndian(_)
BigEndian(b) ==
    IF b = <<>> THEN 0
    ELSE 256 * BigEndian(SubSeq(b, 1, Len(b) - 1)) + b[Len(b)]

\* bytes.decode("ascii"): fails on any byte above 0x7f.
IsAscii(b) == \A i \in 1..Len(b) : b[i] < 128

\* The characters int() and float() strip: " \t\n\v\f\r".
IsSpace(c) == c \in {9, 10, 11, 12, 13, 32}

IsDigit(c) == c >= 48 /\ c <= 57

IsHexDigit(c) == IsDigit(c) \/ (c >= 97 /\ c <= 102) \/ (c >= 65 /\ c <= 70)

DigitValue(c) ==
    IF IsDigit(c) THEN c - 48
    ELSE IF c >= 97 THEN c - 87
    ELSE c - 55

\* s without its leading and trailing white space: from the first to the
\* last character that is not white space.
Strip(s) ==
    IF \A i \in 1..Len(s) : IsSpace(s[i]) THEN <<>>
    ELSE SubSeq(s,
             CHOOSE i \in 1..Len(s) :
                 ~IsSpace(s[i]) /\ \A j \in 1..(i - 1) : IsSpace(s[j]),
             CHOOSE i \in 1..Len(s) :
                 ~IsSpace(s[i]) /\ \A j \in (i + 1)..Len(s) : IsSpace(s[j]))

\* A run of digits of the base in which single underscores may separate digits.
DigitRun(s, base) ==
    /\ s # <<>>
    /\ \A i \in 1..Len(s) :
         \/ IF base = 16 THEN IsHexDigit(s[i]) ELSE IsDigit(s[i])
         \/ /\ s[i] = 95
            /\ i > 1 /\ i < Len(s)
            /\ s[i - 1] # 95

\* The number the first n characters of s write in the base, underscores
\* skipped.
RECURSIVE DigitsValueUpTo(_, _, _)
DigitsValueUpTo(s, n, base) ==
    IF n = 0 THEN 0
    ELSE IF s[n] = 95 THEN DigitsValueUpTo(s, n - 1, base)
    ELSE base * DigitsValueUpTo(s, n - 1, base) + DigitValue(s[n])

DigitsValue(s, base) == DigitsValueUpTo(s, Len(s), base)

\* int(s) and int(s, 16) on an ASCII string: surrounding white space, one
\* sign, for base 16 an optional 0x / 0X (and one underscore after it),
\* then the digits.
IntDigits(neg, w, base) ==
    IF DigitRun(w, base)
    THEN [ok |-> TRUE, n |-> (IF neg THEN -1 ELSE 1) * DigitsValue(w, base)]
    ELSE [ok |-> FALSE, n |-> 0]

IntStripped(t, base) ==
    LET signed == t # <<>> /\ t[1] \in {43, 45}
        sign   == IF signed THEN 1 ELSE 0
        pre    == /\ base = 16 /\ Len(t) >= sign + 2
                  /\ t[sign + 1] = 48 /\ t[sign + 2] \in {120, 88}
        prefix == IF pre THEN 2 ELSE 0
        under  == IF pre /\ Len(t) > sign + 2 /\ t[sign + 3] = 95 THEN 1 ELSE 0
    IN  The({IntDigits(signed /\ t[1] = 45, w, base) :
                 w \in {SubSeq(t, sign + prefix + under + 1, Len(t))}})

ParseInt(s, base) == The({IntStripped(t, base) : t \in {Strip(s)}})

\* The number of leading decimal digits of s.
DigitPrefix(s) ==
    Cardinality({i \in 1..Len(s) : \A j \in 1..i : IsDigit(s[j])})

NotUnderscore(c) == c # 95

WithoutUnderscores(s) == SelectSeq(s, NotUnderscore)

\* float() accepts an underscore only between two digits.
UnderscoresOk(s) ==
    \A i \in 1..Len(s) :
        s[i] = 95 => /\ i > 1 /\ i < Len(s)
                     /\ IsDigit(s[i - 1]) /\ IsDigit(s[i + 1])

Lower(c) == IF c >= 65 /\ c <= 90 THEN c + 32 ELSE c

LowerAll(s) == [i \in 1..Len(s) |-> Lower(s[i])]

\* mant * 10^exp with the factors of ten moved out of mant.
RECURSIVE Normalised(_, _)
Normalised(mant, exp) ==
    IF mant = 0 THEN [mant |-> 0, exp |-> 0]
    ELSE IF mant % 10 = 0 THEN Normalised(mant \div 10, exp + 1)
    ELSE [mant |-> mant, exp |-> exp]

\* float(s) on an ASCII string: surrounding white space, one sign, then
\* inf / infinity / nan, or digits with an optional point and an optional
\* exponent.  The value is kept as the decimal the literal denotes (neg,
\* mant, exp); the rounding to a double is not modelled.
FloatError == [ok |-> FALSE, special |-> "", neg |-> FALSE, mant |-> 0, exp |-> 0]

FloatSpecial(neg, name) == [ok |-> TRUE, special |-> name, neg |-> neg, mant |-> 0, exp |-> 0]

FloatValue(neg, digits, exp) ==
    LET nm == Normalised(DigitsValue(digits, 10), exp)
    IN  [ok |-> TRUE, special |-> "", neg |-> neg, mant |-> nm.mant, exp |-> nm.exp]

\* r is what follows the digits and the point: nothing, or e, a sign and
\* digits to the end.
FloatExponent(neg, digits, nf, r) ==
    IF r = <<>> THEN FloatValue(neg, digits, -nf)
    ELSE IF r[1] \notin {101, 69} THEN FloatError
    ELSE LET signed == Len(r) >= 2 /\ r[2] \in {43, 45}
             ds     == SubSeq(r, IF signed THEN 3 ELSE 2, Len(r))
         IN  IF ds # <<>> /\ DigitPrefix(ds) = Len(ds)
             THEN FloatValue(neg, digits,
                     (IF signed /\ r[2] = 45 THEN -1 ELSE 1) * DigitsValue(ds, 10) - nf)
             ELSE FloatError

\* u starts with ni digits; a point and more digits may follow, and there
\* is a digit before or after the point.
\* nf digits follow the point, none when there is no point.
FloatFraction(neg, u, ni, nf) ==
    LET point == Len(u) > ni /\ u[ni + 1] = 46
        past  == IF point THEN ni + 1 + nf ELSE ni
    IN  IF ni + nf = 0 THEN FloatError
        ELSE The({FloatExponent(neg, digits, nf, r) :
                      digits \in {SubSeq(u, 1, ni) \o SubSeq(u, ni + 2, ni + 1 + nf)},
                      r \in {SubSeq(u, past + 1, Len(u))}})

FloatPoint(neg, u, ni) ==
    The({FloatFraction(neg, u, ni, nf) :
             nf \in {IF Len(u) > ni /\ u[ni + 1] = 46
                     THEN DigitPrefix(SubSeq(u, ni + 2, Len(u)))
                     ELSE 0}})

FloatUnsigned(neg, u) ==
    IF LowerAll(u) \in {<<105, 110, 102>>, <<105, 110, 102, 105, 110, 105, 116, 121>>}
    THEN FloatSpecial(neg, "inf")
    ELSE IF LowerAll(u) = <<110, 97, 110>> THEN FloatSpecial(neg, "nan")
    ELSE The({FloatPoint(neg, u, ni) : ni \in {DigitPrefix(u)}})

FloatStripped(t) ==
    IF t # <<>> /\ t[1] \in {43, 45}
    THEN The({FloatUnsigned(t[1] = 45, u) : u \in {Tail(t)}})
    ELSE FloatUnsigned(FALSE, t)

ParseFloat(s) ==
    IF ~UnderscoresOk(s) THEN FloatError
    ELSE The({FloatStripped(t) : t \in {Strip(WithoutUnderscores(s))}})

\* The length of the UTF-8 sequence a lead byte announces, 0 for a byte that
\* cannot start one.
Utf8Width(b) ==
    IF b < 128 THEN 1
    ELSE IF b >= 194 /\ b <= 223 THEN 2
    ELSE IF b >= 224 /\ b <= 239 THEN 3
    ELSE IF b >= 240 /\ b <= 244 THEN 4
    ELSE 0

IsCont(b) == b >= 128 /\ b <= 191

\* The strict decoder's extra limits on the second byte: no overlong forms,
\* no surrogates, nothing above U+10FFFF.
Utf8SecondOk(lead, b) ==
    IF lead = 224 THEN b >= 160 /\ b <= 191
    ELSE IF lead = 237 THEN b >= 128 /\ b <= 159
    ELSE IF lead = 240 THEN b >= 144 /\ b <= 191
    ELSE IF lead = 244 THEN b >= 128 /\ b <= 143
    ELSE IsCont(b)

\* Every byte starts a well-formed sequence or continues one: a lead byte
\* is followed by the continuation bytes it announces, and a continuation
\* byte has its lead byte within reach.
Utf8Ok(b) ==
    \A i \in 1..Len(b) :
        IF IsCont(b[i])
        THEN \E k \in 1..3 :
                 /\ i - k >= 1
                 /\ Utf8Width(b[i - k]) > k
                 /\ \A j \in 1..(k - 1) : IsCont(b[i - j])
        ELSE /\ Utf8Width(b[i]) >= 1
             /\ i + Utf8Width(b[i]) - 1 <= Len(b)
             /\ \A j \in 1..(Utf8Width(b[i]) - 1) :
                    IF j = 1 THEN Utf8SecondOk(b[i], b[i + 1]) ELSE IsCont(b[i + j])

\* The code point of the sequence that starts at b[i].
Utf8CodePoint(b, i) ==
    LET w == Utf8Width(b[i])
    IN  IF w = 1 THEN b[i]
        ELSE IF w = 2 THEN (b[i] - 192) * 64 + (b[i + 1] - 128)
        ELSE IF w = 3 THEN (b[i] - 224) * 4096 + (b[i + 1] - 128) * 64 + (b[i + 2] - 128)
        ELSE (b[i] - 240) * 262144 + (b[i + 1] - 128) * 4096
             + (b[i + 2] - 128) * 64 + (b[i + 3] - 128)

\* The code points of the sequences that start in b[lo..hi], in order.
RECURSIVE Utf8CodePoints(_, _, _)
Utf8CodePoints(b, lo, hi) ==
    IF lo > hi THEN <<>>
    ELSE IF lo = hi THEN (IF IsCont(b[lo]) THEN <<>> ELSE <<Utf8CodePoint(b, lo)>>)
    ELSE LET mid == (lo + hi) \div 2
         IN  Utf8CodePoints(b, lo, mid) \o Utf8CodePoints(b, mid + 1, hi)

\* bytes.decode("utf-8"): the string as its sequence of code points.
Utf8Decode(b) ==
    IF Utf8Ok(b) THEN [ok |-> TRUE, str |-> Utf8CodePoints(b, 1, Len(b))]
    ELSE [ok |-> FALSE, str |-> <<>>]

(***************************************************************************)
(* The decoded values: Python's None, bool, int, float, str, list and      *)
(* dict.  A dict is kept as its (key, value) pairs in insertion order.     *)
(***************************************************************************)

PyNone == [kind |-> "None"]

PyBool(b) == [kind |-> "bool", b |-> b]

PyInt(n) == [kind |-> "int", int |-> n]

PyFloat(f) ==
    [kind |-> "float", special |-> f.special, neg |-> f.neg, mant |-> f.mant, exp |-> f.exp]

PyStr(s) == [kind |-> "str", str |-> s]

PyList(items) == [kind |-> "list", items |-> items]

PyDict(pairs) == [kind |-> "dict", pairs |-> pairs]

\* What a call that raised holds in place of a value.
NoValue == [kind |-> "no value"]

\* list and dict have no hash: `key in result` raises TypeError for them.
Hashable(v) == v.kind \notin {"list", "dict"}

Abs(n) == IF n < 0 THEN -n ELSE n

\* A number as sign, mant, exp: True is 1 and False is 0.
Number(v) ==
    IF v.kind = "bool" THEN [neg |-> FALSE, mant |-> (IF v.b THEN 1 ELSE 0), exp |-> 0]
    ELSE IF v.kind = "int"
    THEN [neg  |-> v.int < 0,
          mant |-> Normalised(Abs(v.int), 0).mant,
          exp  |-> Normalised(Abs(v.int), 0).exp]
    ELSE [neg |-> v.neg, mant |-> v.mant, exp |-> v.exp]

\* Two hashable values are the same dict key: equal strings, None and None,
\* or equal numbers (True == 1 == 1.0, 0 == -0.0); a nan equals nothing.
SameKey(a, b) ==
    IF a.kind = "str" \/ b.kind = "str" THEN a = b
    ELSE IF a.kind = "None" \/ b.kind = "None" THEN a = b
    ELSE LET fa == a.kind = "float" /\ a.special # ""
             fb == b.kind = "float" /\ b.special # ""
         IN  IF fa \/ fb
             THEN fa /\ fb /\ a.special = "inf" /\ b.special = "inf" /\ a.neg = b.neg
             ELSE /\ Number(a).mant = Number(b).mant
                  /\ Number(a).exp = Number(b).exp
                  /\ (Number(a).mant = 0 \/ Number(a).neg = Number(b).neg)

\* A test that finds no key.
KeyNeverInResult(key, pairs) == FALSE

\* key in result
KeyInResult(key, pairs) == \E i \in 1..Len(pairs) : SameKey(pairs[i][1], key)

(***************************************************************************)
(* JsonbType                                                               *)
(***************************************************************************)

JsonbType_Null == 0
JsonbType_Bool_True == 1
JsonbType_Bool_False == 2
JsonbType_Int == 3
JsonbType_Int5 == 4
JsonbType_Float == 5
JsonbType_Float5 == 6
JsonbType_Text == 7
JsonbType_TextJ == 8
JsonbType_Text5 == 9
JsonbType_TextRaw == 10
JsonbType_Array == 11
JsonbType_Object == 12

(***************************************************************************)
(* _read_jsonb: what a call returns or raises.                             *)
(***************************************************************************)

\* return result, n
Return(result, n) ==
    [exc |-> "", msg |-> "", arg |-> NoValue, value |-> result, consumed |-> n]

\* raise exc(msg)
Raise(exc, msg) ==
    [exc |-> exc, msg |-> msg, arg |-> NoValue, value |-> NoValue, consumed |-> 0]

\* raise KeyError(f"Key already in object: {key}")
RaiseKeyError(key) ==
    [exc |-> "KeyError", msg |-> "Key already in object", arg |-> key,
     value |-> NoValue, consumed |-> 0]

\* The first branch taking one selector too many.
IsLiteralSizeOffByOne(size) == size <= 12

\* size <= 11: the high nibble is the size itself
IsLiteralSize(size) == size <= 11

\* The header of a non-empty buffer: the type in the low nibble of byte 0,
\* the size in its high nibble or, for 12 to 15, in the 1, 2, 4 or 8 bytes
\* that follow.  jsonb_data[1] raises IndexError and struct.unpack raises
\* struct.error when those bytes are not all there.
ParseHeader(jsonb_data) ==
    LET size      == jsonb_data[1] \div 16
        json_type == jsonb_data[1] % 16
        width     == IF IsLiteralSize(size) THEN 0
                     ELSE IF size = 12 THEN 1
                     ELSE IF size = 13 THEN 2
                     ELSE IF size = 14 THEN 4
                     ELSE 8
        field     == Slice(jsonb_data, 1, 1 + width)
    IN  IF IsLiteralSize(size)
        THEN [exc |-> "", json_type |-> json_type, size |-> size, data_start_offset |-> 1]
        ELSE IF Len(field) # width
        THEN [exc |-> IF size = 12 THEN "IndexError" ELSE "struct.error",
              json_type |-> json_type, size |-> 0, data_start_offset |-> 0]
        ELSE [exc |-> "", json_type |-> json_type, size |-> BigEndian(field),
              data_start_offset |-> 1 + width]

\* A count that leaves the header out.
ConsumedPayloadOnly(data_start_offset, size) == size

\* A count that takes every header to be the one byte.
ConsumedOneByteHeader(data_start_offset, size) == 1 + size

\* data_start_offset + size, the count a call returns with its value.
Consumed(data_start_offset, size) == data_start_offset + size

\* The Text branch taking the two unsupported types as well.
IsTextWithUnsupported(json_type) ==
    json_type \in {JsonbType_Text, JsonbType_TextRaw, JsonbType_TextJ, JsonbType_Text5}

\* json_type in (JsonbType.Text, JsonbType.TextRaw)
IsText(json_type) == json_type \in {JsonbType_Text, JsonbType_TextRaw}

\* The branches of the types that hold no other value.  The payload is
\* jsonb_data[data_start_offset:data_start_offset + size], a slice: when the
\* buffer ends early the payload is what is left of it.
ReadScalar(jsonb_data, json_type, size, data_start_offset) ==
    LET payload == Slice(jsonb_data, data_start_offset, data_start_offset + size)
        n       == Consumed(data_start_offset, size)
        hex     == Slice(jsonb_data, data_start_offset, data_start_offset + 2) = <<48, 120>>
        digits  == IF json_type = JsonbType_Int5 /\ hex
                   THEN Slice(jsonb_data, data_start_offset + 2, data_start_offset + size)
                   ELSE payload
        int     == ParseInt(digits, IF json_type = JsonbType_Int5 /\ hex THEN 16 ELSE 10)
        float   == ParseFloat(payload)
        text    == Utf8Decode(payload)
    IN  IF json_type = JsonbType_Null
        THEN IF size # 0 THEN Raise("ValueError", "Null with non-zero size")
             ELSE Return(PyNone, n)
        ELSE IF json_type \in {JsonbType_Bool_True, JsonbType_Bool_False}
        THEN IF size # 0 THEN Raise("ValueError", "Bool with non-zero size")
             ELSE Return(PyBool(json_type = JsonbType_Bool_True), n)
        ELSE IF json_type \in {JsonbType_Int, JsonbType_Int5}
        THEN IF ~IsAscii(digits) THEN Raise("UnicodeDecodeError", "ascii")
             ELSE IF ~int.ok THEN Raise("ValueError", "invalid literal for int()")
             ELSE Return(PyInt(int.n), n)
        ELSE IF json_type \in {JsonbType_Float, JsonbType_Float5}
        THEN IF ~IsAscii(payload) THEN Raise("UnicodeDecodeError", "ascii")
             ELSE IF ~float.ok THEN Raise("ValueError", "could not convert string to float")
             ELSE Return(PyFloat(float), n)
        ELSE IF IsText(json_type)
        THEN IF ~text.ok THEN Raise("UnicodeDecodeError", "utf-8")
             ELSE Return(PyStr(text.str), n)
        ELSE IF json_type = JsonbType_TextJ
        THEN Raise("NotImplementedError", "TextJ records not currently supported")
        ELSE IF json_type = JsonbType_Text5
        THEN Raise("NotImplementedError", "Text5 records not currently supported")
        \* the last branch formats JsonbType.name, which no enum class has
        ELSE Raise("AttributeError", "name")

\* The element put in front.
ArrayPrepend(result, element) == <<element>> \o result

\* result.append(element)
ArrayAppend(result, element) == Append(result, element)

\* result[key] = value, for a key that is not in result
ObjectStore(result, key, value) == Append(result, <<key, value>>)

RECURSIVE _read_jsonb(_), ReadArray(_, _, _, _), ReadObject(_, _, _, _)

\* The Array loop from bytes_consumed on; the cursor it ended at comes back
\* in consumed.
ReadArray(inner_data, size, bytes_consumed, result) ==
    IF ~(bytes_consumed < size) THEN Return(PyList(result), bytes_consumed)
    ELSE LET element == _read_jsonb(SliceFrom(inner_data, bytes_consumed))
         IN  IF element.exc # "" THEN element
             ELSE ReadArray(inner_data, size, bytes_consumed + element.consumed,
                            ArrayAppend(result, element.value))

\* The Object loop from bytes_consumed on.
ReadObject(inner_data, size, bytes_consumed, result) ==
    IF ~(bytes_consumed < size) THEN Return(PyDict(result), bytes_consumed)
    ELSE LET key      == _read_jsonb(SliceFrom(inner_data, bytes_consumed))
             after    == bytes_consumed + key.consumed
             value    == _read_jsonb(SliceFrom(inner_data, after))
         IN  IF key.exc # "" THEN key
             ELSE IF after >= size
             THEN Raise("ValueError", "Ran out of data while reading an object")
             ELSE IF value.exc # "" THEN value
             ELSE IF ~Hashable(key.value) THEN Raise("TypeError", "unhashable type")
             ELSE IF KeyInResult(key.value, result) THEN RaiseKeyError(key.value)
             ELSE ReadObject(inner_data, size, after + value.consumed,
                             ObjectStore(result, key.value, value.value))

_read_jsonb(jsonb_data) ==
    IF Len(jsonb_data) = 0 THEN Raise("ValueError", "Input buffer is empty")
    ELSE LET h     == ParseHeader(jsonb_data)
             inner == Slice(jsonb_data, h.data_start_offset, h.data_start_offset + h.size)
             loop  == IF h.json_type = JsonbType_Array
                      THEN ReadArray(inner, h.size, 0, <<>>)
                      ELSE ReadObject(inner, h.size, 0, <<>>)
         IN  IF h.exc # "" THEN Raise(h.exc, "header")
             ELSE IF h.json_type \in {JsonbType_Array, JsonbType_Object}
             THEN IF loop.exc # "" THEN loop
                  ELSE Return(loop.value, Consumed(h.data_start_offset, h.size))
             ELSE ReadScalar(jsonb_data, h.json_type, h.size, h.data_start_offset)

read_jsonb(jsonb_data) ==
    LET r == _read_jsonb(jsonb_data)
    IN  IF r.exc # "" THEN r ELSE Return(r.value, 0)

(***************************************************************************)
(* The inputs.  A plan is one value together with one way of writing it as *)
(* jsonb: for each node the type, the payload text and the size selector   *)
(* (0 stands for a size written in the header byte itself, 12 to 15 for a  *)
(* size field of 1, 2, 4 or 8 bytes).  Encoding(plan) is the bytes and     *)
(* Decoded(plan) the value they stand for.                                 *)
(***************************************************************************)

MaxLen == 4        \* raw buffers: every byte string of RawBytes up to this length
MaxWidth == 2      \* children of an array plan, pairs of an object plan
MaxSiblings == 3   \* encodings concatenated in one buffer
MaxTail == 1       \* stray bytes after a complete encoding
MaxZeros == 8      \* zero bytes after the header byte of an unsupported type
MaxStepLen == 3    \* raw buffers of the stepwise decoder

\* The sequences over S of length at most n.
SeqsUpTo(S, n) == UNION {[1..k -> S] : k \in 0..n}

Repeat(x, n) == [i \in 1..n |-> x]

RECURSIVE Flatten(_)
Flatten(ss) == IF ss = <<>> THEN <<>> ELSE ss[1] \o Flatten(Tail(ss))

\* n as `width` big-endian bytes.
RECURSIVE ToBigEndian(_, _)
ToBigEndian(n, width) ==
    IF width = 0 THEN <<>>
    ELSE ToBigEndian(n \div 256, width - 1) \o <<n % 256>>

FieldWidth(sel) ==
    IF sel = 12 THEN 1 ELSE IF sel = 13 THEN 2 ELSE IF sel = 14 THEN 4
    ELSE IF sel = 15 THEN 8 ELSE 0

\* The selector can carry the size.
SelectorFits(sel, size) ==
    IF sel = 0 THEN size <= 11
    ELSE IF sel = 12 THEN size <= 255
    ELSE IF sel = 13 THEN size <= 65535
    ELSE TRUE

HeaderBytes(json_type, sel, size) ==
    IF sel = 0 THEN <<size * 16 + json_type>>
    ELSE <<sel * 16 + json_type>> \o ToBigEndian(size, FieldWidth(sel))

Leaf(json_type, payload, value, sel) ==
    [node |-> "leaf", json_type |-> json_type, payload |-> payload,
     value |-> value, sel |-> sel]

ArrayPlan(kids, sel) == [node |-> "array", kids |-> kids, sel |-> sel]

\* kids is a sequence of <<key plan, value plan>>
ObjectPlan(kids, sel) == [node |-> "object", kids |-> kids, sel |-> sel]

RECURSIVE Payload(_), Encoding(_), EncodeAll(_)
\* The payload of a plan.
Payload(plan) ==
    IF plan.node = "leaf" THEN plan.payload
    ELSE IF plan.node = "array" THEN EncodeAll(plan.kids)
    ELSE EncodeAll(Flatten(plan.kids))

Encoding(plan) ==
    HeaderBytes(IF plan.node = "leaf" THEN plan.json_type
                ELSE IF plan.node = "array" THEN JsonbType_Array
                ELSE JsonbType_Object,
                plan.sel, Len(Payload(plan)))
    \o Payload(plan)

EncodeAll(plans) ==
    IF plans = <<>> THEN <<>> ELSE Encoding(plans[1]) \o EncodeAll(Tail(plans))

RECURSIVE Decoded(_)
Decoded(plan) ==
    IF plan.node = "leaf" THEN plan.value
    ELSE IF plan.node = "array"
    THEN PyList([i \in 1..Len(plan.kids) |-> Decoded(plan.kids[i])])
    ELSE PyDict([i \in 1..Len(plan.kids) |->
                    <<Decoded(plan.kids[i][1]), Decoded(plan.kids[i][2])>>])

\* Every size selector of every node can carry the node's size.
RECURSIVE WellFormed(_)
WellFormed(plan) ==
    /\ SelectorFits(plan.sel, Len(Payload(plan)))
    /\ plan.node = "array" => \A i \in 1..Len(plan.kids) : WellFormed(plan.kids[i])
    /\ plan.node = "object" =>
           \A i \in 1..Len(plan.kids) :
               WellFormed(plan.kids[i][1]) /\ WellFormed(plan.kids[i][2])

\* No object of the plan writes the same key twice.
RECURSIVE DistinctKeys(_)
DistinctKeys(plan) ==
    IF plan.node = "leaf" THEN TRUE
    ELSE IF plan.node = "array" THEN \A i \in 1..Len(plan.kids) : DistinctKeys(plan.kids[i])
    ELSE /\ \A i \in 1..Len(plan.kids) : DistinctKeys(plan.kids[i][2])
         /\ \A i, j \in 1..Len(plan.kids) :
                i # j => Decoded(plan.kids[i][1]) # Decoded(plan.kids[j][1])

Selectors == {0, 12, 13, 14, 15}

Float15 == [special |-> "", neg |-> FALSE, mant |-> 15, exp |-> -1]
Float05 == [special |-> "", neg |-> FALSE, mant |-> 5, exp |-> -1]

\* <<type, payload, value>>: the scalars and how jsonb writes them.
Scalars ==
    { <<JsonbType_Null, <<>>, PyNone>>,
      <<JsonbType_Bool_True, <<>>, PyBool(TRUE)>>,
      <<JsonbType_Bool_False, <<>>, PyBool(FALSE)>>,
      <<JsonbType_Int, <<55>>, PyInt(7)>>,                          \* 7
      <<JsonbType_Int, <<45, 49, 50>>, PyInt(-12)>>,                \* -12
      <<JsonbType_Int5, <<48>>, PyInt(0)>>,                         \* 0
      <<JsonbType_Int5, <<48, 120, 49, 70>>, PyInt(31)>>,           \* 0x1F
      <<JsonbType_Float, <<49, 46, 53>>, PyFloat(Float15)>>,        \* 1.5
      <<JsonbType_Float5, <<46, 53>>, PyFloat(Float05)>>,           \* .5
      <<JsonbType_Text, <<>>, PyStr(<<>>)>>,
      <<JsonbType_Text, <<97>>, PyStr(<<97>>)>>,                    \* a
      <<JsonbType_TextRaw, <<97>>, PyStr(<<97>>)>>,
      <<JsonbType_Text, <<195, 169>>, PyStr(<<233>>)>>,             \* e acute
      <<JsonbType_Int, <<49, 50, 51, 52, 53, 54, 55, 56, 57, 48>>, PyInt(1234567890)>> }

\* The payload lengths on either side of each change of header width.
BoundaryLengths == {0, 11, 12, 13, 255, 256}

BoundaryTexts ==
    {<<JsonbType_Text, Repeat(97, n), PyStr(Repeat(97, n))>> : n \in BoundaryLengths}

RootLeaves ==
    {p \in {Leaf(s[1], s[2], s[3], sel) : s \in Scalars \cup BoundaryTexts, sel \in Selectors} :
        WellFormed(p)}

\* The values an array plan draws its children from.
InnerPlans ==
    { ArrayPlan(<<>>, 0),
      ArrayPlan(<<Leaf(JsonbType_Int, <<55>>, PyInt(7), 0)>>, 0),
      ArrayPlan(<<ArrayPlan(<<>>, 12)>>, 12),
      ObjectPlan(<<>>, 0),
      ObjectPlan(<<<<Leaf(JsonbType_Text, <<97>>, PyStr(<<97>>), 0),
                     Leaf(JsonbType_Null, <<>>, PyNone, 0)>>>>, 0) }

KidPlans ==
    {Leaf(s[1], s[2], s[3], 0) :
        s \in {t \in Scalars : Len(t[2]) <= 4 /\ t[1] # JsonbType_Bool_False}}
    \cup { Leaf(JsonbType_Int, <<55>>, PyInt(7), 12),
           Leaf(JsonbType_Text, <<97>>, PyStr(<<97>>), 13) }
    \cup InnerPlans

KeyPlans ==
    { Leaf(JsonbType_Text, <<97>>, PyStr(<<97>>), 0),
      Leaf(JsonbType_TextRaw, <<97>>, PyStr(<<97>>), 0),
      Leaf(JsonbType_Text, <<98>>, PyStr(<<98>>), 12) }

ValuePlans ==
    { Leaf(JsonbType_Null, <<>>, PyNone, 0),
      Leaf(JsonbType_Int, <<55>>, PyInt(7), 0),
      Leaf(JsonbType_Text, <<97>>, PyStr(<<97>>), 12),
      ArrayPlan(<<Leaf(JsonbType_Int, <<55>>, PyInt(7), 0)>>, 0) }

ArrayPlans ==
    {ArrayPlan(kids, sel) : kids \in SeqsUpTo(KidPlans, MaxWidth), sel \in Selectors}

\* The pairs may repeat a key: such an object is not valid jsonb.
ObjectPlans ==
    {ObjectPlan(kids, sel) :
        kids \in SeqsUpTo(KeyPlans \X ValuePlans, MaxWidth), sel \in Selectors}

RootPlans == {p \in RootLeaves \cup ArrayPlans \cup ObjectPlans : WellFormed(p)}

\* The values written one after the other in one buffer.
SiblingPlans ==
    { Leaf(JsonbType_Null, <<>>, PyNone, 0),
      Leaf(JsonbType_Bool_True, <<>>, PyBool(TRUE), 12),
      Leaf(JsonbType_Int, <<55>>, PyInt(7), 0),
      Leaf(JsonbType_Int5, <<48>>, PyInt(0), 0),
      Leaf(JsonbType_Int5, <<48, 120, 49, 70>>, PyInt(31), 13),
      Leaf(JsonbType_Float, <<49, 46, 53>>, PyFloat(Float15), 0),
      Leaf(JsonbType_TextRaw, <<97>>, PyStr(<<97>>), 0),
      ArrayPlan(<<Leaf(JsonbType_Int, <<55>>, PyInt(7), 0),
                  Leaf(JsonbType_Null, <<>>, PyNone, 0)>>, 0),
      ObjectPlan(<<<<Leaf(JsonbType_Text, <<97>>, PyStr(<<97>>), 0),
                     Leaf(JsonbType_Int, <<55>>, PyInt(7), 0)>>>>, 12) }

RawBytes == {0, 19, 20, 23, 27, 43, 44, 48, 120, 200}

RawBuffers == SeqsUpTo(RawBytes, MaxLen)

\* A header byte of type TextJ or Text5 with any size selector, then zero
\* bytes and at most one other byte.
UnsupportedBuffers ==
    {<<sel * 16 + t>> \o Repeat(0, k) \o r :
        sel \in 0..15, t \in {JsonbType_TextJ, JsonbType_Text5},
        k \in 0..MaxZeros, r \in SeqsUpTo(RawBytes, 1)}

Prefixes(b) == {SubSeq(b, 1, n) : n \in 0..Len(b)}

\* Encodings cut short.
TruncatedBuffers ==
    UNION {Prefixes(Encoding(Leaf(s[1], s[2], s[3], sel))) : s \in Scalars, sel \in Selectors}

\* The buffers the decoder is run on, family by family: each family is a set
\* of <<buf, source>>, a buffer with the plans it was written from (none for
\* bytes that were not written from a plan).
RawInputs == {<<b, <<>>>> : b \in RawBuffers}

UnsupportedInputs == {<<b, <<>>>> : b \in UnsupportedBuffers}

TruncatedInputs == {<<b, <<>>>> : b \in TruncatedBuffers}

RootInputs == {<<Encoding(p), <<p>>>> : p \in RootPlans}

SiblingInputs ==
    {<<EncodeAll(ps), ps>> :
        ps \in {q \in SeqsUpTo(SiblingPlans, MaxSiblings) : Len(q) >= 2}}

TailInputs ==
    {<<Encoding(p) \o t, <<p>>>> :
        p \in SiblingPlans, t \in SeqsUpTo(RawBytes, MaxTail) \ {<<>>}}

Inputs ==
    <<RawInputs, UnsupportedInputs, TruncatedInputs, RootInputs, SiblingInputs, TailInputs>>

(***************************************************************************)
(* The decoder run on a buffer: once through read_jsonb, or through        *)
(* _read_jsonb by a caller that reads one value after the other, each time *)
(* from the buffer advanced by the count the last call returned.           *)
(***************************************************************************)

NoCall == [fn |-> "none", arg |-> <<>>, out |-> Return(NoValue, 0)]

NotReturned == [done |-> FALSE, out |-> Return(NoValue, 0)]

\* Nothing has been called yet, on any input of any of the families ins.
Start(ins) ==
    /\ \E i \in 1..Len(ins) : \E in \in ins[i] : buf = in[1] /\ source = in[2]
    /\ cursor = 0
    /\ values = <<>>
    /\ counts = <<>>
    /\ call = NoCall
    /\ stack = <<>>
    /\ ret = NotReturned

Init == Start(Inputs)

\* read_jsonb(buf)
CallReadJsonb ==
    /\ call.fn = "none"
    /\ call' = [fn |-> "read_jsonb", arg |-> buf, out |-> read_jsonb(buf)]
    /\ UNCHANGED <<buf, source, cursor, values, counts, stack, ret>>

\* value, count = _read_jsonb(buf[cursor:]); cursor += count
CallReadNext ==
    /\ \/ call.fn = "none"
       \/ call.fn = "_read_jsonb" /\ call.out.exc = "" /\ cursor < Len(buf)
    /\ LET out == _read_jsonb(SliceFrom(buf, cursor))
       IN  /\ call' = [fn |-> "_read_jsonb", arg |-> SliceFrom(buf, cursor), out |-> out]
           /\ IF out.exc = ""
              THEN /\ values' = Append(values, out.value)
                   /\ counts' = Append(counts, out.consumed)
                   /\ cursor' = cursor + out.consumed
              ELSE UNCHANGED <<values, counts, cursor>>
    /\ UNCHANGED <<buf, source, stack, ret>>

Next == CallReadJsonb \/ CallReadNext

Spec == Init /\ [][Next]_vars

(***************************************************************************)
(* The claims about what a call returns.                                   *)
(***************************************************************************)

Called == call.fn # "none"

Returned == Called /\ call.out.exc = ""

\* The header of the latest call's buffer can be read.
HeaderRead == Called /\ call.arg # <<>> /\ ParseHeader(call.arg).exc = ""

\* The latest call's function applied to another buffer.
Rerun(b) == IF call.fn = "read_jsonb" THEN read_jsonb(b) ELSE _read_jsonb(b)

RECURSIVE Sum(_)
Sum(ns) == IF ns = <<>> THEN 0 ELSE ns[1] + Sum(Tail(ns))

\* buf is exactly the encodings of valid values, one after the other.
ValidSource ==
    /\ source # <<>>
    /\ buf = EncodeAll(source)
    /\ \A i \in 1..Len(source) : WellFormed(source[i]) /\ DistinctKeys(source[i])

\* C1: on a buffer that is n valid encodings one after the other, the calls
\* of _read_jsonb, each on the buffer advanced by the counts returned so far,
\* do not fail; the i-th returns the i-th value and the length of the i-th
\* encoding (its header and its payload), and when the cursor comes to the
\* end of the buffer it is exactly at the end, with n values read.
C1_ConsumedLength ==
    (ValidSource /\ call.fn = "_read_jsonb") =>
        /\ call.out.exc = ""
        /\ Len(values) <= Len(source)
        /\ \A i \in 1..Len(values) :
               /\ values[i] = Decoded(source[i])
               /\ counts[i] = Len(Encoding(source[i]))
        /\ cursor = Sum(counts)
        /\ cursor >= Len(buf) => cursor = Len(buf) /\ Len(values) = Len(source)

\* Three or more values, a nested one among them, read to the end.
C1_Witness ==
    /\ ValidSource /\ call.fn = "_read_jsonb"
    /\ Len(source) >= 3
    /\ \E i \in 1..Len(source) : source[i].node # "leaf"
    /\ \E i \in 1..Len(source) : source[i].node = "leaf" /\ source[i].sel # 0
    /\ Len(values) = Len(source)

\* C2 (as the claim states it): when fewer bytes follow the header than the
\* size it declares, the call fails and returns no value.
C2_TruncatedPayloadFails ==
    (HeaderRead /\ Len(call.arg) - ParseHeader(call.arg).data_start_offset
                       < ParseHeader(call.arg).size)
        => call.out.exc # ""

\* C4 (as the claim states it): the outcome of a call is the outcome on the
\* window alone, the header and the declared payload, whatever bytes follow.
C4_WindowDecides ==
    LET h == ParseHeader(call.arg)
        n == h.data_start_offset + h.size
    IN  (HeaderRead /\ Len(call.arg) >= n) => call.out = Rerun(Slice(call.arg, 0, n))

RECURSIVE StringKeysOnly(_)
StringKeysOnly(v) ==
    IF v.kind = "list" THEN \A i \in 1..Len(v.items) : StringKeysOnly(v.items[i])
    ELSE IF v.kind = "dict"
    THEN \A i \in 1..Len(v.pairs) :
             v.pairs[i][1].kind = "str" /\ StringKeysOnly(v.pairs[i][2])
    ELSE TRUE

\* C5 (as the claim states it): every key of every object a call returns is
\* a string.
C5_KeysAreText == Returned => StringKeysOnly(call.out.value)

\* The latest call's buffer starts with a byte of type TextJ or Text5.
UnsupportedTag ==
    Called /\ call.arg # <<>> /\ call.arg[1] % 16 \in {JsonbType_TextJ, JsonbType_Text5}

ObjectSource ==
    /\ Called /\ Len(source) = 1 /\ source[1].node = "object"
    /\ buf = Encoding(source[1])

\* The pair whose key first repeats an earlier pair's key, 0 if none does.
SecondOccurrence(kids) ==
    LET repeats == {j \in 1..Len(kids) :
                       \E i \in 1..(j - 1) : Decoded(kids[i][1]) = Decoded(kids[j][1])}
    IN  IF repeats = {} THEN 0
        ELSE CHOOSE j \in repeats : \A k \in repeats : j <= k

\* C7: an object written with the same key string in two pairs fails with
\* KeyError on that key at its second occurrence, whatever the values; an
\* object whose keys are all different decodes to its pairs in the order
\* they were written.
C7_DuplicateKey ==
    ObjectSource =>
        LET kids == source[1].kids
            j    == SecondOccurrence(kids)
        IN  IF j # 0
            THEN /\ call.out.exc = "KeyError"
                 /\ call.out.arg = Decoded(kids[j][1])
                 /\ call.out.value = NoValue
            ELSE /\ call.out.exc = ""
                 /\ call.out.value = Decoded(source[1])

\* The key a written as Text and again as TextRaw, with different values.
C7_Witness ==
    /\ ObjectSource
    /\ Len(source[1].kids) = 2
    /\ source[1].kids[1][1].json_type # source[1].kids[2][1].json_type
    /\ Decoded(source[1].kids[1][2]) # Decoded(source[1].kids[2][2])
    /\ call.out.exc = "KeyError"

\* The header length and the size the format gives a buffer, read off the
\* bytes: selector S <= 11 is the size, in a 1-byte header; 12, 13, 14, 15
\* announce a big-endian size of 1, 2, 4, 8 bytes, in a header of 2, 3, 5, 9.
FormatHeaderLength(b) ==
    LET S == b[1] \div 16
    IN  IF S <= 11 THEN 1 ELSE IF S = 12 THEN 2 ELSE IF S = 13 THEN 3
        ELSE IF S = 14 THEN 5 ELSE 9

FormatSize(b) ==
    LET S == b[1] \div 16
    IN  IF S <= 11 THEN S
        ELSE IF S = 12 THEN b[2]
        ELSE IF S = 13 THEN b[2] * 256 + b[3]
        ELSE IF S = 14 THEN ((b[2] * 256 + b[3]) * 256 + b[4]) * 256 + b[5]
        ELSE ((((((b[2] * 256 + b[3]) * 256 + b[4]) * 256 + b[5]) * 256 + b[6]) * 256
                 + b[7]) * 256 + b[8]) * 256 + b[9]

\* C8: a call of _read_jsonb that returns a value had its whole header in
\* the buffer and returns the header length plus the size the selector
\* gives; and a Text of 0, 11, 12, 13, 255 or 256 payload bytes, written
\* with any selector that can carry the length, decodes to a string of
\* exactly that many bytes.
C8_SizeSelector ==
    /\ (Returned /\ call.fn = "_read_jsonb") =>
           /\ Len(call.arg) >= FormatHeaderLength(call.arg)
           /\ call.out.consumed = FormatHeaderLength(call.arg) + FormatSize(call.arg)
    /\ (Returned /\ Len(source) = 1 /\ buf = Encoding(source[1])
           /\ source[1].node = "leaf" /\ source[1].json_type = JsonbType_Text
           /\ Len(source[1].payload) \in BoundaryLengths) =>
           /\ call.out.value = PyStr(source[1].payload)
           /\ Len(call.out.value.str) = Len(source[1].payload)
           /\ call.fn = "_read_jsonb" =>
                  call.out.consumed = FormatHeaderLength(buf) + Len(source[1].payload)

\* A Text of 256 bytes behind a two-byte size field.
C8_Witness ==
    /\ Returned /\ call.fn = "_read_jsonb"
    /\ Len(source) = 1 /\ source[1].node = "leaf"
    /\ call.arg[1] = 13 * 16 + JsonbType_Text
    /\ call.out.value.kind = "str" /\ Len(call.out.value.str) = 256
    /\ call.out.consumed = 259

\* The values the round trip is claimed for: no Float.
RECURSIVE NoFloat(_)
NoFloat(plan) ==
    IF plan.node = "leaf" THEN plan.json_type \notin {JsonbType_Float, JsonbType_Float5}
    ELSE IF plan.node = "array" THEN \A i \in 1..Len(plan.kids) : NoFloat(plan.kids[i])
    ELSE \A i \in 1..Len(plan.kids) : NoFloat(plan.kids[i][2])

\* C9: read_jsonb on any valid encoding of a value built from Null, Bool,
\* Int, Text, Array and Object (keys different within an object) returns
\* that value, array elements and object pairs in their order.
C9_RoundTrip ==
    (ValidSource /\ Len(source) = 1 /\ NoFloat(source[1]) /\ call.fn = "read_jsonb") =>
        /\ call.out.exc = ""
        /\ call.out.value = Decoded(source[1])

\* An array of two different children, one of them nested, written with a
\* size field.
C9_Witness ==
    /\ ValidSource /\ Len(source) = 1 /\ NoFloat(source[1]) /\ call.fn = "read_jsonb"
    /\ source[1].node = "array" /\ source[1].sel = 14
    /\ Len(source[1].kids) = 2
    /\ source[1].kids[1].node = "object" /\ source[1].kids[1].kids # <<>>
    /\ source[1].kids[2].node = "leaf"
    /\ call.out.value = Decoded(source[1])

(***************************************************************************)
(* The decoder step by step.  Each call of _read_jsonb is a frame of the   *)
(* stack: its buffer, where it is (pc), its local variables and, once it   *)
(* has finished, what it returns or raises (out).                          *)
(***************************************************************************)

Frame(jsonb_data) ==
    [jsonb_data |-> jsonb_data, pc |-> "start",
     json_type |-> 0, size |-> 0, data_start_offset |-> 0,
     inner_data |-> <<>>, bytes_consumed |-> 0,
     result |-> <<>>, key |-> NoValue, out |-> Return(NoValue, 0)]

Top == stack[Len(stack)]

Caller == stack[Len(stack) - 1]

\* The stack with its innermost frame replaced.
WithTop(f) == [stack EXCEPT ![Len(stack)] = f]

\* The stack without its innermost frame, the caller's frame replaced.
BackTo(f) == [SubSeq(stack, 1, Len(stack) - 1) EXCEPT ![Len(stack) - 1] = f]

Finish(f, out) == [f EXCEPT !.pc = "done", !.out = out]

\* read_jsonb(buf) calls _read_jsonb(buf).
Enter ==
    /\ stack = <<>> /\ ~ret.done
    /\ stack' = <<Frame(buf)>>
    /\ UNCHANGED <<buf, source, cursor, values, counts, call, ret>>

\* The call up to its loop: the empty buffer, the header, and for a type
\* that holds no other value the whole call.
Body ==
    /\ stack # <<>> /\ Top.pc = "start"
    /\ LET d == Top.jsonb_data
           h == ParseHeader(d)
       IN  stack' = WithTop(
               IF Len(d) = 0 THEN Finish(Top, Raise("ValueError", "Input buffer is empty"))
               ELSE IF h.exc # "" THEN Finish(Top, Raise(h.exc, "header"))
               ELSE IF h.json_type \in {JsonbType_Array, JsonbType_Object}
               THEN [Top EXCEPT
                       !.pc = IF h.json_type = JsonbType_Array THEN "array" ELSE "object",
                       !.json_type = h.json_type,
                       !.size = h.size,
                       !.data_start_offset = h.data_start_offset,
                       !.inner_data = Slice(d, h.data_start_offset,
                                            h.data_start_offset + h.size)]
               ELSE Finish(Top, ReadScalar(d, h.json_type, h.size, h.data_start_offset)))
    /\ UNCHANGED <<buf, source, cursor, values, counts, call, ret>>

\* while bytes_consumed < size: the call for the next element or key, or the
\* end of the loop and the return.
Loop ==
    /\ stack # <<>> /\ Top.pc \in {"array", "object"}
    /\ stack' =
         IF Top.bytes_consumed < Top.size
         THEN Append(WithTop([Top EXCEPT !.pc = IF Top.pc = "array" THEN "element" ELSE "key"]),
                     Frame(SliceFrom(Top.inner_data, Top.bytes_consumed)))
         ELSE WithTop(Finish(Top,
                  Return(IF Top.pc = "array" THEN PyList(Top.result) ELSE PyDict(Top.result),
                         Consumed(Top.data_start_offset, Top.size))))
    /\ UNCHANGED <<buf, source, cursor, values, counts, call, ret>>

\* element, element_size = ...; result.append(element);
\* bytes_consumed += element_size
ReturnElement ==
    /\ Len(stack) >= 2 /\ Top.pc = "done" /\ Top.out.exc = "" /\ Caller.pc = "element"
    /\ stack' = BackTo([Caller EXCEPT
                          !.pc = "array",
                          !.result = ArrayAppend(Caller.result, Top.out.value),
                          !.bytes_consumed = Caller.bytes_consumed + Top.out.consumed])
    /\ UNCHANGED <<buf, source, cursor, values, counts, call, ret>>

\* key, key_size = ...; bytes_consumed += key_size
ReturnKey ==
    /\ Len(stack) >= 2 /\ Top.pc = "done" /\ Top.out.exc = "" /\ Caller.pc = "key"
    /\ stack' = BackTo([Caller EXCEPT
                          !.pc = "room",
                          !.key = Top.out.value,
                          !.bytes_consumed = Caller.bytes_consumed + Top.out.consumed])
    /\ UNCHANGED <<buf, source, cursor, values, counts, call, ret>>

\* if bytes_consumed >= size: raise; otherwise the call for the value
CallValue ==
    /\ stack # <<>> /\ Top.pc = "room"
    /\ stack' =
         IF Top.bytes_consumed >= Top.size
         THEN WithTop(Finish(Top, Raise("ValueError", "Ran out of data while reading an object")))
         ELSE Append(WithTop([Top EXCEPT !.pc = "value"]),
                     Frame(SliceFrom(Top.inner_data, Top.bytes_consumed)))
    /\ UNCHANGED <<buf, source, cursor, values, counts, call, ret>>

\* value, value_size = ...; if key in result: raise;
\* bytes_consumed += value_size; result[key] = value
ReturnValue ==
    /\ Len(stack) >= 2 /\ Top.pc = "done" /\ Top.out.exc = "" /\ Caller.pc = "value"
    /\ stack' = BackTo(
         IF ~Hashable(Caller.key) THEN Finish(Caller, Raise("TypeError", "unhashable type"))
         ELSE IF KeyInResult(Caller.key, Caller.result)
         THEN Finish(Caller, RaiseKeyError(Caller.key))
         ELSE [Caller EXCEPT
                 !.pc = "object",
                 !.result = ObjectStore(Caller.result, Caller.key, Top.out.value),
                 !.bytes_consumed = Caller.bytes_consumed + Top.out.consumed])
    /\ UNCHANGED <<buf, source, cursor, values, counts, call, ret>>

\* An exception leaves the call it was raised in and ends the caller too.
Propagate ==
    /\ Len(stack) >= 2 /\ Top.pc = "done" /\ Top.out.exc # ""
    /\ stack' = BackTo(Finish(Caller, Top.out))
    /\ UNCHANGED <<buf, source, cursor, values, counts, call, ret>>

\* The outermost call returns or raises: read_jsonb keeps the value.
Leave ==
    /\ Len(stack) = 1 /\ Top.pc = "done"
    /\ stack' = <<>>
    /\ ret' = [done |-> TRUE, out |-> Top.out]
    /\ UNCHANGED <<buf, source, cursor, values, counts, call>>

StepNext ==
    \/ Enter \/ Body \/ Loop \/ ReturnElement \/ ReturnKey \/ CallValue
    \/ ReturnValue \/ Propagate \/ Leave

\* The buffers the steps are followed on: the short raw buffers and the
\* arrays and objects, valid or not.
StepInputs ==
    <<{<<b, <<>>>> : b \in SeqsUpTo(RawBytes, MaxStepLen)},
      {<<Encoding(p), <<p>>>> : p \in {q \in ArrayPlans : q.sel = 12}},
      {<<Encoding(p), <<p>>>> : p \in {q \in ObjectPlans : q.sel = 12}}>>

StepInit == Start(StepInputs)

StepSpec == StepInit /\ [][StepNext]_vars

\* The interpreter runs the call on: a step that can be taken is taken.
FairStepSpec == StepSpec /\ WF_vars(StepNext)

\* The steps end with what the call returns as a whole.
StepsAgree == ret.done => ret.out = _read_jsonb(buf)

(***************************************************************************)
(* The claims about the loops and about termination.                       *)
(***************************************************************************)

InLoop(f) == f.pc \in {"array", "element", "object", "key", "room", "value"}

ReturnsComposite(f) ==
    f.pc = "done" /\ f.out.exc = "" /\ f.out.value.kind \in {"list", "dict"}

\* C3 (as the claim states it): in the Array loop and in the Object loop
\* bytes_consumed never exceeds size, and an array or object is returned
\* only from a loop that ended with bytes_consumed = size.
C3_CursorWithinSize ==
    \A i \in 1..Len(stack) :
        /\ InLoop(stack[i]) => stack[i].bytes_consumed <= stack[i].size
        /\ ReturnsComposite(stack[i]) => stack[i].bytes_consumed = stack[i].size

\* A call has returned to a loop: the stack lost its innermost frame and
\* the caller goes on with its loop.
ReturnedToLoop ==
    /\ Len(stack) >= 2 /\ Len(stack') = Len(stack) - 1
    /\ InLoop(stack'[Len(stack')])

\* C10: the decoding of any buffer ends, with a value or an exception.  A
\* call that returns a value returns a count of at least 1; each return to
\* a loop moves the loop's cursor forward; each call is given a buffer
\* shorter than its caller's, so that no more calls are nested inside the
\* outermost one than the buffer has bytes.
C10_Terminates ==
    /\ <>(ret.done)
    /\ [](\A i \in 1..Len(stack) :
              (stack[i].pc = "done" /\ stack[i].out.exc = "") => stack[i].out.consumed >= 1)
    /\ [](\A i \in 2..Len(stack) :
              Len(stack[i].jsonb_data) < Len(stack[i - 1].jsonb_data))
    /\ [](Len(stack) - 1 <= Len(buf))
    /\ [][ReturnedToLoop =>
              stack'[Len(stack')].bytes_consumed > stack[Len(stack')].bytes_consumed]_vars

\* A decoding that went three calls deep and came back with its value.
C10_Witness ==
    /\ ret.done /\ ret.out.exc = ""
    /\ ret.out.value.kind = "list"
    /\ \E i \in 1..Len(ret.out.value.items) :
           /\ ret.out.value.items[i].kind = "dict"
           /\ ret.out.value.items[i].pairs # <<>>

=============================================================================
